---- MODULE Spec2Model ----
(***************************************************************************)
(* Model of the QR -> PDF -> rows -> Google Sheets pipeline of             *)
(* src/qr_processor.py and of the processing loop of src/app.py.           *)
(*                                                                         *)
(* Strings that the code takes apart (cells, text lines) are sequences of  *)
(* characters; a character is a one-element name.  SANY accepts ASCII      *)
(* string literals only, so the non-ASCII characters of the source are     *)
(* named:  "NUM" is the numero sign U+2116, "SHY" the soft hyphen U+00AD,  *)
(* and a Cyrillic letter is named by its Unicode letter name, upper case   *)
(* for the capital ("VE" "ve", "IE" "ie", "ES" "es", "EN" "en", "O_" "o_", *)
(* "EM" "em", "ER" "er", "TE" "te", "A_" "a_", "ZE" "ze", "KA" "ka",       *)
(* "PE" "pe").  Latin letters and digits stand for themselves.             *)
(* Strings that are only compared (the fields of a sheet row) are atomic.  *)
(***************************************************************************)
EXTENDS Integers, Sequences, FiniteSets, TLC

VARIABLES
    item,          \* normalize_row: the raw row handed to it
    normalized,    \* normalize_row: its result, None or Some(row)
    npc,           \* normalize_row: "call" before, "done" after
    store,         \* the worksheet "QR Data": its rows, first to last
    calls,         \* number of update_google_sheet calls made so far
    last,          \* the last update_google_sheet call: what it was given,
                   \* what it read, the worksheet calls it made, its result
    resent,        \* the last update_google_sheet call that returned was
                   \* given the rows of the one that returned before it
    uploaded_successfully, \* st.session_state.uploaded_successfully
    send,          \* the send handler in this script run: whether
                   \* update_google_sheet raised, the URL it returned
    uploaded_files,\* app.py: the uploaded images of this run
    world,         \* what a GET of each URL gives: an error or a PDF
    hashOrder,     \* the order in which list(found_urls) lists the URLs
    processing,    \* st.session_state.processing
    results,       \* st.session_state.results: None or Some(list)
    session_df,    \* st.session_state.df: None or Some(rows)
    returns,       \* what process_single_image returned for each file it
                   \* was called on (None for a file that could not be read)
    fetched,       \* for each file, the URLs download_pdf_to_memory was
                   \* called on, in the order of the calls
    photo,         \* decode_qr_from_image: the image handed to it
    decoded,       \* decode_qr_from_image: None if it raised, else Some(list)
    dpc,           \* decode_qr_from_image: "call" before, "done" after
    doc,           \* extract_pdf_date: the PDF handed to it
    doc_date,      \* extract_pdf_date: the string it returned
    xpc,           \* extract_pdf_date: "call" before, "done" after
    writer,        \* concurrent writers: for each, where it is in
                   \* update_google_sheet, its input, and what it read
    overlapped     \* concurrent writers: a writer has read the store
                   \* between the read and the write of another

normVars == <<item, normalized, npc>>
syncVars == <<store, calls, last, resent, uploaded_successfully, send>>
runVars == <<uploaded_files, world, hashOrder, processing, results, session_df, returns,
             fetched>>
decVars == <<photo, decoded, dpc>>
dateVars == <<doc, doc_date, xpc>>
raceVars == <<writer, overlapped>>
vars == <<normVars, syncVars, runVars, decVars, dateVars, raceVars>>

\* ------------------------------------------------------------------ bounds
MaxCells == 5
MaxTokens == 4
MaxBatch == 2
MaxCalls == 2
MaxFiles == 3
MaxTransforms == 3
MaxPages == 3

\* ------------------------------------------------------------------ values
None == <<>>
Some(v) == <<v>>
IsNone(o) == o = <<>>
Val(o) == o[1]

\* ------------------------------------------------------------ characters
WS == {" ", "\t", "\n"}
IsWS(c) == c \in WS
Digits == {"0", "1", "2", "3", "4", "5", "6", "7", "8", "9"}
SHY == "SHY"
NoneCell == <<"None">>

CyrLower ==
    [VE |-> "ve", IE |-> "ie", ES |-> "es", EN |-> "en", O_ |-> "o_",
     EM |-> "em", ER |-> "er", TE |-> "te", A_ |-> "a_", ZE |-> "ze",
     KA |-> "ka", PE |-> "pe"]

\* re.IGNORECASE: both sides are compared after case folding
Lower(c) == IF c \in DOMAIN CyrLower THEN CyrLower[c] ELSE c

\* --------------------------------------------------------- str operations
\* str.strip()
RECURSIVE LStrip(_)
LStrip(s) == IF s # <<>> /\ IsWS(Head(s)) THEN LStrip(Tail(s)) ELSE s

RECURSIVE RStrip(_)
RStrip(s) ==
    IF s # <<>> /\ IsWS(s[Len(s)]) THEN RStrip(SubSeq(s, 1, Len(s) - 1)) ELSE s

Strip(s) == RStrip(LStrip(s))

\* str.replace(soft hyphen, "-")
ReplaceSHY(s) == [i \in 1..Len(s) |-> IF s[i] = SHY THEN "-" ELSE s[i]]

\* sep.join(parts)
RECURSIVE Join(_, _)
Join(parts, sep) ==
    IF parts = <<>> THEN <<>>
    ELSE IF Len(parts) = 1 THEN parts[1]
    ELSE parts[1] \o sep \o Join(Tail(parts), sep)

\* re.sub(r'\s+', '', s)
RemoveWS(s) == SelectSeq(s, LAMBDA c : ~IsWS(c))

\* re.split(r'\s+', s): the pieces between the maximal whitespace runs; a
\* string that starts or ends with whitespace gives an empty first or last
\* piece, and the empty string gives one empty piece.
RECURSIVE SplitFrom(_, _)
SplitFrom(s, cur) ==
    IF s = <<>> THEN <<cur>>
    ELSE IF IsWS(Head(s)) THEN <<cur>> \o SplitFrom(LStrip(s), <<>>)
    ELSE SplitFrom(Tail(s), Append(cur, Head(s)))

SplitWS(s) == SplitFrom(s, <<>>)

\* a literal of the pattern matches s at position i (case-insensitively)
MatchLit(s, i, lit) ==
    /\ i + Len(lit) - 1 <= Len(s)
    /\ \A k \in 1..Len(lit) : Lower(s[i + k - 1]) = lit[k]

\* the alternatives of r"№\s*п/п|Номер места|Вес|Заказ"
KwNumPP == <<"pe", "/", "pe">>
KwNomerMesta == <<"en", "o_", "em", "ie", "er", " ", "em", "ie", "es", "te", "a_">>
KwVes == <<"ve", "ie", "es">>
KwZakaz == <<"ze", "a_", "ka", "a_", "ze">>

MatchNumPP(s, i) ==
    /\ s[i] = "NUM"
    /\ \E j \in (i + 1)..Len(s) :
          /\ \A k \in (i + 1)..(j - 1) : IsWS(s[k])
          /\ MatchLit(s, j, KwNumPP)

\* re.search(r"№\s*п/п|Номер места|Вес|Заказ", raw, re.IGNORECASE)
HasHeaderKeyword(s) ==
    \E i \in 1..Len(s) :
        \/ MatchNumPP(s, i)
        \/ MatchLit(s, i, KwNomerMesta)
        \/ MatchLit(s, i, KwVes)
        \/ MatchLit(s, i, KwZakaz)

\* ------------------------------------------------------------- raw rows
\* A raw row is the dict built by extract_table_rows_from_pdf: it has the
\* key "raw_cells" or the key "raw_text" (has_cells / has_text).
TableItem(src, date, cells) ==
    [source_pdf |-> src, pdf_date |-> date,
     has_cells |-> TRUE, raw_cells |-> cells,
     has_text |-> FALSE, raw_text |-> <<>>]

TextItem(src, date, line) ==
    [source_pdf |-> src, pdf_date |-> date,
     has_cells |-> FALSE, raw_cells |-> <<>>,
     has_text |-> TRUE, raw_text |-> line]

\* "" if c is None else str(c).strip()
CellText(c) == IF c = NoneCell THEN <<>> ELSE Strip(c)

\* any(cell and str(cell).strip() for cell in (trow or []))
HasNonBlankCell(trow) ==
    \E i \in 1..Len(trow) : trow[i] # NoneCell /\ trow[i] # <<>> /\ Strip(trow[i]) # <<>>

\* re.match(r'^\d+\s+\S+', line)
RECURSIVE SkipDigits(_)
SkipDigits(s) == IF s # <<>> /\ Head(s) \in Digits THEN SkipDigits(Tail(s)) ELSE s

IsRecordLine(line) ==
    LET rest == SkipDigits(line) IN
        /\ line # <<>> /\ Head(line) \in Digits
        /\ rest # <<>> /\ IsWS(Head(rest))
        /\ LStrip(rest) # <<>>

\* --------------------------------------------------------- normalize_row
\* item.get("raw_text") or " | ".join(item.get("raw_cells", []))
RawOf(it) ==
    IF it.has_text /\ it.raw_text # <<>> THEN it.raw_text
    ELSE Join(IF it.has_cells THEN it.raw_cells ELSE <<>>, <<" ", "|", " ">>)

NormCells(it) == [i \in 1..Len(it.raw_cells) |-> ReplaceSHY(Strip(it.raw_cells[i]))]

Row(src, date, seq, place, weight, order) ==
    [source_pdf |-> src, pdf_date |-> date, seq |-> seq,
     place_number |-> place, weight |-> weight, order |-> order]

\* the table branch of normalize_row, qr_processor.py lines 321-336
FromCells(it) ==
    LET cells == NormCells(it) IN
        Row(it.source_pdf, it.pdf_date, cells[1], cells[2], cells[3],
            RemoveWS(IF Len(cells) > 3
                     THEN Join(SubSeq(cells, 4, Len(cells)), <<" ">>)
                     ELSE <<>>))

\* the token branch of normalize_row, qr_processor.py lines 338-352
FromTokens(it, raw) ==
    LET tokens == SplitWS(raw) IN
        IF Len(tokens) >= 4
        THEN Some(Row(it.source_pdf, it.pdf_date, tokens[1], tokens[2], tokens[3],
                      RemoveWS(Join(SubSeq(tokens, 4, Len(tokens)), <<" ">>))))
        ELSE None

\* normalize_row with the header test made after the table branch instead of
\* before it
normalize_row_HeaderTestLate(it) ==
    LET raw == Strip(ReplaceSHY(RawOf(it))) IN
        IF it.has_cells /\ it.raw_cells # <<>> /\ Len(it.raw_cells) >= 3
        THEN Some(FromCells(it))
        ELSE IF HasHeaderKeyword(raw) THEN None
        ELSE FromTokens(it, raw)

normalize_row(it) ==
    LET raw == Strip(ReplaceSHY(RawOf(it))) IN
        IF HasHeaderKeyword(raw) THEN None
        ELSE IF it.has_cells /\ it.raw_cells # <<>> /\ Len(it.raw_cells) >= 3
             THEN Some(FromCells(it))
        ELSE FromTokens(it, raw)

\* ------------------------------------------------------------ the inputs
\* cells as pdfplumber hands them over: None, padded, with inner whitespace,
\* with a soft hyphen, a header word in mixed case
CellPool ==
    { <<"3">>, <<"P", SHY, "7">>, <<"O", " ", "5">>, <<"ve", "IE", "es">>,
      <<" ", "5", "\n">>, NoneCell }

TokenPool ==
    { <<"3">>, <<"P", SHY, "7">>, <<"1", "2">>, <<"O">>,
      <<"ZE", "a_", "ka", "a_", "ze">> }

SepPool == { <<" ">>, <<" ", "\t">> }

SeqsUpTo(S, n) == UNION { [1..k -> S] : k \in 1..n }

\* f"{filename}_QR{idx+1}.pdf", line 382
SourceName(filename, n) == <<filename, "_QR", n, ".pdf">>

Sources == {SourceName("a.png", 1)}
Dates == {"", "01.02.2024 10:00:00"}

\* the rows extract_table_rows_from_pdf can emit (lines 283-301)
TableItems ==
    { TableItem(src, d, [i \in 1..Len(trow) |-> CellText(trow[i])]) :
        src \in Sources, d \in Dates,
        trow \in { t \in SeqsUpTo(CellPool, MaxCells) : HasNonBlankCell(t) } }

TextLines ==
    { Strip(Join(ts, sep)) : ts \in SeqsUpTo(TokenPool, MaxTokens), sep \in SepPool }

TextItems ==
    { TextItem(src, d, line) :
        src \in Sources, d \in Dates,
        line \in { l \in TextLines : IsRecordLine(l) } }

RawItems == TableItems \cup TextItems

\* ------------------------------------------------------------ the PDFs
\* A PDF is [opens, pages]; a page is
\*   tables      None when page.extract_tables() raises, else Some(tables)
\*   text_raises page.extract_text() raises
\*   text        the lines of page.extract_text() (<<>>: no text)
\*   label_date  group 1 of the label-anchored pattern in the text, "" if none
\*   any_date    the first DD.MM.YYYY HH:MM:SS in the text, "" if none
Page(tables, text_raises, text, label_date, any_date) ==
    [tables |-> tables, text_raises |-> text_raises, text |-> text,
     label_date |-> label_date, any_date |-> any_date]

\* extract_pdf_date, lines 249-264: any exception gives ""
RECURSIVE DateOfPages(_)
DateOfPages(pages) ==
    IF pages = <<>> THEN ""
    ELSE IF Head(pages).text_raises THEN ""
    ELSE IF Head(pages).text # <<>> /\ Head(pages).label_date # ""
         THEN Head(pages).label_date
    ELSE IF Head(pages).text # <<>> /\ Head(pages).any_date # ""
         THEN Head(pages).any_date
    ELSE DateOfPages(Tail(pages))

extract_pdf_date(pdf) == IF pdf.opens THEN DateOfPages(pdf.pages) ELSE ""

\* lines 282-290: the rows of the tables of one page
RECURSIVE RowsOfTable(_, _, _)
RowsOfTable(table, src, date) ==
    IF table = <<>> THEN <<>>
    ELSE (IF HasNonBlankCell(Head(table))
          THEN << TableItem(src, date,
                            [k \in 1..Len(Head(table)) |-> CellText(Head(table)[k])]) >>
          ELSE <<>>)
         \o RowsOfTable(Tail(table), src, date)

RECURSIVE RowsOfTables(_, _, _)
RowsOfTables(tables, src, date) ==
    IF tables = <<>> THEN <<>>
    ELSE RowsOfTable(Head(tables), src, date) \o RowsOfTables(Tail(tables), src, date)

\* lines 292-301: the record lines of the text of one page
RECURSIVE RowsOfText(_, _, _)
RowsOfText(lines, src, date) ==
    IF lines = <<>> THEN <<>>
    ELSE (IF IsRecordLine(Strip(Head(lines)))
          THEN << TextItem(src, date, Strip(Head(lines))) >>
          ELSE <<>>)
         \o RowsOfText(Tail(lines), src, date)

\* the page loop, lines 275-301; None when a page's extract_text() raises
RECURSIVE RowsOfPages(_, _, _, _)
RowsOfPages(pages, src, date, rows) ==
    IF pages = <<>> THEN Some(rows)
    ELSE LET page == Head(pages)
             fromTables == IF IsNone(page.tables) THEN <<>>
                           ELSE RowsOfTables(Val(page.tables), src, date)
         IN  IF page.text_raises THEN None
             ELSE RowsOfPages(Tail(pages), src, date,
                              rows \o fromTables \o RowsOfText(page.text, src, date))

\* extract_table_rows_from_pdf, lines 266-309: None when it raises
extract_table_rows_from_pdf(pdf, source_name) ==
    IF pdf.opens
    THEN RowsOfPages(pdf.pages, source_name, extract_pdf_date(pdf), <<>>)
    ELSE None

\* the PDFs of the model
HeaderCells ==
    << <<"NUM", " ", "pe", "/", "pe">>,
       <<"EN", "o_", "em", "ie", "er", " ", "em", "ie", "es", "te", "a_">>,
       <<"VE", "ie", "es">>,
       <<"ZE", "a_", "ka", "a_", "ze">>,
       NoneCell >>

DataCells ==
    << <<"3">>, <<"P", "L", "-", "7", "7">>, <<"1", "2", ".", "5">>,
       <<"O", "R", "D">>, <<"5", "5", "1">> >>

\* one page: a table of a header row and one 5-column row; the page text
\* has both rows as lines
PdfOneRow ==
    [opens |-> TRUE,
     pages |-> << Page(Some(<< <<HeaderCells, DataCells>> >>), FALSE,
                       << Join(SubSeq(HeaderCells, 1, 4), <<" ">>),
                          Join(DataCells, <<" ">>) >>,
                       "01.02.2024 10:00:00", "01.02.2024 10:00:00") >>]

\* one page without tables (extract_tables() raises) and two record lines
PdfTextOnly ==
    [opens |-> TRUE,
     pages |-> << Page(None, FALSE,
                       << <<"1", " ", "P", "L", "-", "1", " ", "2", " ", "A">>,
                          <<" ", "2", "\t", "P", "L", "-", "2", " ", "4", " ", "B", " ">> >>,
                       "", "05.06.2024 11:12:13") >>]

\* a first page like that of PdfOneRow, and a second whose text cannot be read
PdfSecondPageFails ==
    [opens |-> TRUE,
     pages |-> << PdfOneRow.pages[1], Page(Some(<<>>), TRUE, <<>>, "", "") >>]

\* bytes that pdfplumber cannot open
PdfCorrupt == [opens |-> FALSE, pages |-> <<>>]

\* ------------------------------------------------------------- the world
\* the URLs of the model: http://a and https://b
UrlA == <<"h", "t", "t", "p", ":", "/", "/", "a">>
UrlB == <<"h", "t", "t", "p", "s", ":", "/", "/", "b">>
URLs == {UrlA, UrlB}

\* download_pdf_to_memory, lines 233-247: None when it raises
FetchError == [fetch_error |-> TRUE]
Resources == {FetchError, PdfCorrupt, PdfOneRow, PdfTextOnly, PdfSecondPageFails}

download_pdf_to_memory(url) == IF world[url] = FetchError THEN None ELSE Some(world[url])

Orderings(S) ==
    { p \in [1..Cardinality(S) -> S] : \A a, b \in 1..Cardinality(S) : a # b => p[a] # p[b] }

\* ------------------------------------------------------------ the images
\* An uploaded file is [name, read_ok, parsable, battery]: read_ok is
\* whether uploaded_file.read() returns, parsable whether cv2.imdecode gives
\* an image, and battery what each transform of decode_qr_from_image, in the
\* order of the code, gives: the transform or pyzbar.decode raises, inside
\* the try of lines 186-193 (guarded) or outside it, or pyzbar.decode
\* returns symbols, each a [type, data].
Image(name, read_ok, parsable, battery) ==
    [name |-> name, read_ok |-> read_ok, parsable |-> parsable, battery |-> battery]

Symbol(type, data) == [type |-> type, data |-> data]
Decodes(symbols) == [guarded |-> FALSE, raises |-> FALSE, symbols |-> symbols]
Raises(guarded) == [guarded |-> guarded, raises |-> TRUE, symbols |-> <<>>]

\* "http://" or "https://" starts at position i of s: the length of it, else 0
HttpPrefix(s, i) ==
    IF s[i] # "h" THEN 0
    ELSE IF i + 6 <= Len(s) /\ SubSeq(s, i, i + 6) = <<"h", "t", "t", "p", ":", "/", "/">>
    THEN 7
    ELSE IF i + 7 <= Len(s)
            /\ SubSeq(s, i, i + 7) = <<"h", "t", "t", "p", "s", ":", "/", "/">>
    THEN 8
    ELSE 0

\* the end of the run of non-whitespace characters that starts at i
RECURSIVE RunEnd(_, _)
RunEnd(s, i) == IF i < Len(s) /\ ~IsWS(s[i + 1]) THEN RunEnd(s, i + 1) ELSE i

\* re.findall(r"https?://[^\s]+", data), from position i on
RECURSIVE FindUrls(_, _)
FindUrls(s, i) ==
    IF i > Len(s) THEN <<>>
    ELSE IF HttpPrefix(s, i) > 0 /\ i + HttpPrefix(s, i) <= Len(s)
            /\ ~IsWS(s[i + HttpPrefix(s, i)])
         THEN <<SubSeq(s, i, RunEnd(s, i + HttpPrefix(s, i)))>>
              \o FindUrls(s, RunEnd(s, i + HttpPrefix(s, i)) + 1)
         ELSE FindUrls(s, i + 1)

\* url.rstrip(")\"'")
RECURSIVE RStripQuotes(_)
RStripQuotes(s) ==
    IF s # <<>> /\ s[Len(s)] \in {")", "\"", "'"}
    THEN RStripQuotes(SubSeq(s, 1, Len(s) - 1))
    ELSE s

\* the URLs of one payload, lines 140-142
UrlsIn(data) ==
    UNION { { RStripQuotes(urls[k]) : k \in 1..Len(urls) } : urls \in {FindUrls(data, 1)} }

Found(data, urls) == [found_data |-> data, found_urls |-> urls]

\* test_decode with symbols of every type taken
RECURSIVE test_decode_AnyType(_, _)
test_decode_AnyType(found, barcodes) ==
    IF barcodes = <<>> THEN found
    ELSE test_decode_AnyType(
             IF Head(barcodes).data \notin found.found_data
             THEN Found(found.found_data \cup {Head(barcodes).data},
                        found.found_urls \cup UrlsIn(Head(barcodes).data))
             ELSE found,
             Tail(barcodes))

\* test_decode, lines 130-144, on the symbols pyzbar.decode returned
RECURSIVE test_decode(_, _)
test_decode(found, barcodes) ==
    IF barcodes = <<>> THEN found
    ELSE test_decode(
             IF Head(barcodes).type = "QRCODE" /\ Head(barcodes).data \notin found.found_data
             THEN Found(found.found_data \cup {Head(barcodes).data},
                        found.found_urls \cup UrlsIn(Head(barcodes).data))
             ELSE found,
             Tail(barcodes))

\* the transforms in turn, lines 146-226: None when one raises outside a try
RECURSIVE RunBattery(_, _)
RunBattery(battery, found) ==
    IF battery = <<>> THEN Some(found)
    ELSE IF Head(battery).raises
         THEN (IF Head(battery).guarded THEN RunBattery(Tail(battery), found) ELSE None)
         ELSE RunBattery(Tail(battery), test_decode(found, Head(battery).symbols))

\* list(found_urls), line 231
ListOfFound(run) ==
    IF IsNone(run) THEN None
    ELSE Some(SelectSeq(hashOrder, LAMBDA u : u \in Val(run).found_urls))

\* decode_qr_from_image, lines 100-231: None when it raises
decode_qr_from_image(img) ==
    IF ~img.parsable THEN Some(<<>>)
    ELSE ListOfFound(RunBattery(img.battery, Found({}, {})))

\* the payloads of the model: "http://a'", "x http://a https://b)",
\* "https://b" and "abc"
PayloadA == UrlA \o <<"'">>
PayloadAB == <<"x", " ">> \o UrlA \o <<" ">> \o UrlB \o <<")">>
PayloadB == UrlB
PayloadNoUrl == <<"a", "b", "c">>

QrA == Symbol("QRCODE", PayloadA)
QrAB == Symbol("QRCODE", PayloadAB)
QrNoUrl == Symbol("QRCODE", PayloadNoUrl)
BarcodeB == Symbol("EAN13", PayloadB)

\* ------------------------------------------------- process_single_image
\* lines 385-390: a result that is not None is appended (None is the empty
\* sequence and Some(row) the sequence of that row alone)
RECURSIVE NormalizedRows(_)
NormalizedRows(items) ==
    IF items = <<>> THEN <<>>
    ELSE normalize_row(Head(items)) \o NormalizedRows(Tail(items))

\* the loop over the URLs with a failure ending the loop
RECURSIVE UrlLoop_StopAtFailure(_, _, _, _)
UrlLoop_StopAtFailure(urls, idx, filename, all_rows) ==
    IF idx > Len(urls) THEN all_rows
    ELSE LET pdf_bytes == download_pdf_to_memory(urls[idx]) IN
         IF IsNone(pdf_bytes) THEN all_rows
         ELSE LET items == extract_table_rows_from_pdf(Val(pdf_bytes),
                                                       SourceName(filename, idx))
              IN  IF IsNone(items) THEN all_rows
                  ELSE UrlLoop_StopAtFailure(urls, idx + 1, filename,
                                             all_rows \o NormalizedRows(Val(items)))

\* the loop over the URLs, lines 376-398: idx is the code's idx + 1
RECURSIVE UrlLoop(_, _, _, _)
UrlLoop(urls, idx, filename, all_rows) ==
    IF idx > Len(urls) THEN all_rows
    ELSE LET pdf_bytes == download_pdf_to_memory(urls[idx]) IN
         IF IsNone(pdf_bytes) THEN UrlLoop(urls, idx + 1, filename, all_rows)
         ELSE LET items == extract_table_rows_from_pdf(Val(pdf_bytes),
                                                       SourceName(filename, idx))
              IN  IF IsNone(items) THEN UrlLoop(urls, idx + 1, filename, all_rows)
                  ELSE UrlLoop(urls, idx + 1, filename,
                               all_rows \o NormalizedRows(Val(items)))

Returned(success, qr_count, rows, error) ==
    [success |-> success, qr_count |-> qr_count, rows |-> rows, error |-> error]

\* the calls of download_pdf_to_memory in process_single_image, lines 365-381:
\* none when decoding raised or found nothing, else one for each URL in turn
Downloads(img) ==
    IF ~img.read_ok \/ IsNone(decode_qr_from_image(img)) THEN <<>>
    ELSE Val(decode_qr_from_image(img))

\* process_single_image counting the URLs that could be fetched
process_single_image_CountsFetched(img, filename) ==
    LET urls == decode_qr_from_image(img) IN
        IF IsNone(urls) THEN Returned(FALSE, 0, <<>>, Some("exception"))
        ELSE IF Val(urls) = <<>> THEN Returned(TRUE, 0, <<>>, None)
        ELSE Returned(TRUE,
                      Len(SelectSeq(Val(urls), LAMBDA u : ~IsNone(download_pdf_to_memory(u)))),
                      UrlLoop(Val(urls), 1, filename, <<>>), None)

\* process_single_image, lines 356-411
process_single_image(img, filename) ==
    LET urls == decode_qr_from_image(img) IN
        IF IsNone(urls) THEN Returned(FALSE, 0, <<>>, Some("exception"))
        ELSE IF Val(urls) = <<>> THEN Returned(TRUE, 0, <<>>, None)
        ELSE Returned(TRUE, Len(Val(urls)), UrlLoop(Val(urls), 1, filename, <<>>), None)

\* ------------------------------------------- app.py, the processing loop
ErrorResult(file, error) ==
    [file |-> file, status |-> "error", qr_count |-> 0, rows_count |-> 0, error |-> error]

NoQrResult(file) ==
    [file |-> file, status |-> "no_qr", qr_count |-> 0, rows_count |-> 0]

SuccessResult(file, qr_count, rows) ==
    [file |-> file, status |-> "success", qr_count |-> qr_count, rows_count |-> Len(rows)]

Loop(all_rows, res, rets) == [all_rows |-> all_rows, results |-> res, returns |-> rets]

\* the loop over the files with an error ending the loop
RECURSIVE FileLoop_StopAtError(_, _)
FileLoop_StopAtError(fs, acc) ==
    IF fs = <<>> THEN acc
    ELSE LET f == Head(fs) IN
         IF ~f.read_ok
         THEN Loop(acc.all_rows, Append(acc.results, ErrorResult(f.name, "exception")),
                   Append(acc.returns, None))
         ELSE LET r == process_single_image(f, f.name) IN
              IF ~r.success
              THEN Loop(acc.all_rows, Append(acc.results, ErrorResult(f.name, Val(r.error))),
                        Append(acc.returns, Some(r)))
              ELSE IF r.qr_count = 0
              THEN FileLoop_StopAtError(Tail(fs),
                       Loop(acc.all_rows, Append(acc.results, NoQrResult(f.name)),
                            Append(acc.returns, Some(r))))
              ELSE FileLoop_StopAtError(Tail(fs),
                       Loop(acc.all_rows \o r.rows,
                            Append(acc.results, SuccessResult(f.name, r.qr_count, r.rows)),
                            Append(acc.returns, Some(r))))

\* the loop over the files, app.py lines 111-189
RECURSIVE FileLoop(_, _)
FileLoop(fs, acc) ==
    IF fs = <<>> THEN acc
    ELSE LET f == Head(fs) IN
         IF ~f.read_ok
         THEN FileLoop(Tail(fs),
                  Loop(acc.all_rows, Append(acc.results, ErrorResult(f.name, "exception")),
                       Append(acc.returns, None)))
         ELSE LET r == process_single_image(f, f.name) IN
              IF ~r.success
              THEN FileLoop(Tail(fs),
                       Loop(acc.all_rows, Append(acc.results, ErrorResult(f.name, Val(r.error))),
                            Append(acc.returns, Some(r))))
              ELSE IF r.qr_count = 0
              THEN FileLoop(Tail(fs),
                       Loop(acc.all_rows, Append(acc.results, NoQrResult(f.name)),
                            Append(acc.returns, Some(r))))
              ELSE FileLoop(Tail(fs),
                       Loop(acc.all_rows \o r.rows,
                            Append(acc.results, SuccessResult(f.name, r.qr_count, r.rows)),
                            Append(acc.returns, Some(r))))

UPLOAD_DATETIME == "03.11.2026 10:00:00"

\* df['uploaded_date'] = upload_datetime, app.py line 195
WithUploadedDate(r) ==
    [uploaded_date |-> UPLOAD_DATETIME, pdf_date |-> r.pdf_date,
     source_pdf |-> r.source_pdf, seq |-> r.seq, place_number |-> r.place_number,
     weight |-> r.weight, order |-> r.order]

\* df.drop_duplicates(): the first of equal rows is kept
RECURSIVE drop_duplicates(_, _)
drop_duplicates(rows, kept) ==
    IF rows = <<>> THEN kept
    ELSE drop_duplicates(Tail(rows),
             IF \E k \in 1..Len(kept) : kept[k] = Head(rows) THEN kept
             ELSE Append(kept, Head(rows)))

\* the files of a run: the i-th is named after its place
FileNames == <<"a.png", "b.png", "c.png", "d.png", "e.png">>

\* a file that cannot be read; bytes that are no image; an image on which a
\* transform raises; a blank image; an image with one QR found twice beside
\* a barcode; an image with two QRs
ImageKinds ==
    { Image("", FALSE, TRUE, <<>>),
      Image("", TRUE, FALSE, <<>>),
      Image("", TRUE, TRUE, <<Decodes(<<>>), Raises(FALSE)>>),
      Image("", TRUE, TRUE, <<Decodes(<<>>), Decodes(<<>>)>>),
      Image("", TRUE, TRUE, <<Decodes(<<QrA>>), Decodes(<<BarcodeB, QrA>>)>>),
      Image("", TRUE, TRUE, <<Decodes(<<QrA>>), Raises(TRUE), Decodes(<<QrAB>>)>>) }

Uploads ==
    { [i \in 1..Len(ks) |-> [ks[i] EXCEPT !.name = FileNames[i]]] :
        ks \in SeqsUpTo(ImageKinds, MaxFiles) }

IdleRun ==
    /\ uploaded_files = <<>>
    /\ world = [u \in URLs |-> FetchError]
    /\ hashOrder = <<>>
    /\ processing = FALSE
    /\ results = None
    /\ session_df = None
    /\ returns = <<>>
    /\ fetched = <<>>

IdleDecode ==
    /\ photo = Image("", TRUE, FALSE, <<>>)
    /\ decoded = None
    /\ dpc = "idle"

IdleDate ==
    /\ doc = PdfCorrupt
    /\ doc_date = ""
    /\ xpc = "idle"

IdleRace ==
    /\ writer = <<>>
    /\ overlapped = FALSE

\* ---------------------------------------------------- update_google_sheet
\* columns_order, line 63
columns_order ==
    <<"uploaded_date", "pdf_date", "source_pdf", "seq", "place_number", "weight", "order">>

\* headers, line 67 (transliterated)
headers ==
    <<"Data zagruzki", "Data priema-peredachi", "Istochnik PDF", "No p/p",
      "Nomer mesta", "Ves", "Zakaz">>

\* df[columns_order] ... row.tolist()
ToList(row) == [i \in 1..Len(columns_order) |-> row[columns_order[i]]]

\* the rows in reverse order
RECURSIVE ValuesToList_Reversed(_)
ValuesToList_Reversed(df) ==
    IF df = <<>> THEN <<>> ELSE ValuesToList_Reversed(Tail(df)) \o <<ToList(Head(df))>>

\* df_ordered.values.tolist()
RECURSIVE ValuesToList(_)
ValuesToList(df) ==
    IF df = <<>> THEN <<>> ELSE <<ToList(Head(df))>> \o ValuesToList(Tail(df))

\* the name of the column after the n-th
ColumnName_OffByOne(header, n) == IF Len(header) > n + 1 THEN header[n + 2] ELSE ""

\* existing_data[0][n] if len(existing_data[0]) > n else ''
ColumnName(header, n) == IF Len(header) > n THEN header[n + 1] ELSE ""

\* existing_row.get(name, ''): the cell of the row under the column of that
\* name (the header the program writes has no two equal names)
GetCell(header, row, name) ==
    IF \E i \in 1..Len(header) : header[i] = name
    THEN row[CHOOSE i \in 1..Len(header) : header[i] = name]
    ELSE ""

\* the test with the place_number column alone
is_duplicate_PlaceOnly(row, existing_data) ==
    \E k \in 2..Len(existing_data) :
        row.place_number
          = GetCell(existing_data[1], existing_data[k], ColumnName(existing_data[1], 4))

\* the inner loop, lines 77-81: existing_df is existing_data[1:]
is_duplicate(row, existing_data) ==
    \E k \in 2..Len(existing_data) :
        /\ row.place_number
             = GetCell(existing_data[1], existing_data[k], ColumnName(existing_data[1], 4))
        /\ row.order
             = GetCell(existing_data[1], existing_data[k], ColumnName(existing_data[1], 6))

\* the outer loop, lines 74-83
RECURSIVE new_rows(_, _)
new_rows(df, existing_data) ==
    IF df = <<>> THEN <<>>
    ELSE (IF is_duplicate(Head(df), existing_data) THEN <<>> ELSE <<ToList(Head(df))>>)
         \o new_rows(Tail(df), existing_data)

\* the worksheet calls of one update_google_sheet, lines 66-89
SheetCalls(df, existing_data) ==
    IF existing_data = <<>>
    THEN << [op |-> "update", data |-> <<headers>> \o ValuesToList(df)] >>
    ELSE IF new_rows(df, existing_data) # <<>>
         THEN << [op |-> "append_rows", data |-> new_rows(df, existing_data)] >>
         ELSE <<>>

\* worksheet.update('A1', data): the rows from the first on are overwritten
update(sheet, data) == data \o SubSeq(sheet, Len(data) + 1, Len(sheet))

\* the batch written from the first row on, as update('A1', ...) would
append_rows_FromTop(sheet, data) == data \o SubSeq(sheet, Len(data) + 1, Len(sheet))

\* worksheet.append_rows(data)
append_rows(sheet, data) == sheet \o data

RECURSIVE ApplyCalls(_, _)
ApplyCalls(sheet, cs) ==
    IF cs = <<>> THEN sheet
    ELSE ApplyCalls(IF Head(cs).op = "update" THEN update(sheet, Head(cs).data)
                    ELSE append_rows(sheet, Head(cs).data),
                    Tail(cs))

SPREADSHEET_URL == "https://docs.google.com/spreadsheets/d/QR-Data"

\* the data frames app.py hands over (lines 193-197, 242, 259): at least one
\* row, one uploaded_date for all rows, no two identical rows
SheetRow(seq, place, order) ==
    [uploaded_date |-> "03.11.2026 10:00:00", pdf_date |-> "01.02.2024 10:00:00",
     source_pdf |-> "a.png_QR1.pdf", seq |-> seq, place_number |-> place,
     weight |-> "12.5", order |-> order]

SheetRows ==
    { SheetRow("1", "PL-77", "ORD551"), SheetRow("2", "PL-77", "ORD551"),
      SheetRow("1", "PL-77", "ORD552"), SheetRow("1", "PL-78", "ORD551") }

DataFrames ==
    { df \in SeqsUpTo(SheetRows, MaxBatch) :
        \A i, j \in 1..Len(df) : i # j => df[i] # df[j] }

NoCall == [df |-> <<>>, existing_data |-> <<>>, calls |-> <<>>, ret |-> ""]

\* the outcome of update_google_sheet as the handler sees it, lines 91-96
Sent(raised, url) == [raised |-> raised, url |-> url]
NoSend == [raised |-> FALSE, url |-> None]

IdleSync ==
    /\ store = <<>>
    /\ calls = 0
    /\ last = NoCall
    /\ resent = FALSE
    /\ uploaded_successfully = FALSE
    /\ send = NoSend

IdleNorm == item = TextItem(SourceName("", 0), "", <<>>) /\ normalized = None /\ npc = "idle"

InitSync == IdleSync /\ IdleNorm /\ IdleRun /\ IdleDecode /\ IdleDate /\ IdleRace

\* where a call of the store can fail in update_google_sheet: getting the
\* client and opening or creating the spreadsheet (lines 47-54), getting or
\* adding the worksheet (lines 56-59), get_all_values (line 61), and the write
\* (lines 69 and 86) when the call makes one
Faults == {"open", "worksheet", "read", "write"}

\* the flag with a failed send marked like a successful one
FlagAfterSend_AlwaysSet(raised, flag) == TRUE

\* st.session_state.uploaded_successfully after the handler, app.py lines
\* 258-283: line 265 is reached only when update_google_sheet returned
FlagAfterSend(raised, flag) == IF raised THEN flag ELSE TRUE

\* the send button pressed and update_google_sheet(df) returning, by the only
\* writer: app.py lines 257-271
UpdateGoogleSheet(df) ==
    /\ calls < MaxCalls
    /\ ~uploaded_successfully
    /\ \E existing_data \in {store} : \E cs \in {SheetCalls(df, existing_data)} :
          /\ store' = ApplyCalls(store, cs)
          /\ last' = [df |-> df, existing_data |-> existing_data, calls |-> cs,
                      ret |-> SPREADSHEET_URL]
    /\ resent' = (calls > 0 /\ df = last.df)
    /\ calls' = calls + 1
    /\ send' = Sent(FALSE, Some(SPREADSHEET_URL))
    /\ uploaded_successfully' = FlagAfterSend(FALSE, uploaded_successfully)
    /\ UNCHANGED <<normVars, runVars, decVars, dateVars, raceVars>>

\* the send button pressed and a call of the store failing inside
\* update_google_sheet, the write for an input that has rows to write: the
\* exception is raised again at lines 94-96 and
\* caught by the handler, app.py lines 273-283; a write that fails is one the
\* store has not applied
UpdateGoogleSheetFails(fault) ==
    /\ ~uploaded_successfully
    /\ fault = "write" => \E df \in DataFrames : SheetCalls(df, store) # <<>>
    /\ send' = Sent(TRUE, None)
    /\ uploaded_successfully' = FlagAfterSend(TRUE, uploaded_successfully)
    /\ UNCHANGED <<store, calls, last, resent, normVars, runVars, decVars, dateVars, raceVars>>

\* the script run after a successful send, app.py lines 53-60: the session
\* is reset (the data of the run is already absent in this specification)
AutoRefresh ==
    /\ uploaded_successfully
    /\ uploaded_successfully' = FALSE
    /\ send' = NoSend
    /\ UNCHANGED <<store, calls, last, resent, normVars, runVars, decVars, dateVars, raceVars>>

NextSync ==
    \/ \E df \in DataFrames : UpdateGoogleSheet(df)
    \/ \E fault \in Faults : UpdateGoogleSheetFails(fault)
    \/ AutoRefresh

SpecSync == InitSync /\ [][NextSync]_vars

\* ---------------------------------------- claims on update_google_sheet
\* a sheet row as the claims describe it: the seven columns in store order
AsStoreRow(r) ==
    <<r.uploaded_date, r.pdf_date, r.source_pdf, r.seq, r.place_number, r.weight, r.order>>

SamePair(a, b) == a[5] = b[5] /\ a[7] = b[7]

\* the input rows of the last call that repeat no row the call found in the
\* store, as store rows, in input order
RECURSIVE NonDuplicates(_, _)
NonDuplicates(df, found) ==
    IF df = <<>> THEN <<>>
    ELSE (IF \E k \in 1..Len(found) : SamePair(found[k], AsStoreRow(Head(df)))
          THEN <<>> ELSE <<AsStoreRow(Head(df))>>)
         \o NonDuplicates(Tail(df), found)

\* C1: after every successful update_google_sheet call of a single writer
\* that started from an empty store, no two data rows of the store have the
\* same (place_number, order) pair.
C1_NoTwoRowsWithTheSamePair ==
    calls > 0 =>
        \A i, j \in 2..Len(store) : i # j => ~SamePair(store[i], store[j])

\* C2: a call that finds rows in the store appends exactly the input rows
\* whose (place_number, order) pair (columns 4 and 6, counted from 0) no
\* stored row has, in input order, in one append_rows call; it makes no
\* call at all when there is no such row.
C2_AppendsExactlyTheNonDuplicates ==
    (calls > 0 /\ last.existing_data # <<>>) =>
        LET fresh == NonDuplicates(last.df, last.existing_data) IN
            /\ last.calls = IF fresh = <<>> THEN <<>>
                            ELSE << [op |-> "append_rows", data |-> fresh] >>
            /\ store = last.existing_data \o fresh

\* C2 witness: a call on a store with rows was given one row whose pair was
\* stored and one whose pair was not, and appended the second alone.
C2_Witness_OneOfTwoAppended ==
    /\ calls > 0 /\ last.existing_data # <<>>
    /\ Len(last.df) = 2
    /\ \E k \in 2..Len(last.existing_data) :
          SamePair(last.existing_data[k], AsStoreRow(last.df[1]))
    /\ Len(last.calls) = 1
    /\ last.calls[1].data = <<AsStoreRow(last.df[2])>>

\* C3: a call that finds the store empty makes exactly one write, of the
\* canonical header row followed by every input row in input order, each
\* with its columns in the order uploaded_date, pdf_date, source_pdf, seq,
\* place_number, weight, order.
C3_EmptyStoreGetsHeaderAndAllRows ==
    (calls > 0 /\ last.existing_data = <<>>) =>
        /\ Len(last.calls) = 1
        /\ last.calls[1].op = "update"
        /\ Len(last.calls[1].data) = Len(last.df) + 1
        /\ last.calls[1].data[1] = headers
        /\ \A i \in 1..Len(last.df) : last.calls[1].data[i + 1] = AsStoreRow(last.df[i])
        /\ store = last.calls[1].data

\* C3 witness: the first call was given two rows with different pairs and
\* the store now holds the header and both rows.
C3_Witness_FirstCallOfTwoRows ==
    /\ calls = 1 /\ last.existing_data = <<>>
    /\ Len(last.df) = 2 /\ ~SamePair(AsStoreRow(last.df[1]), AsStoreRow(last.df[2]))
    /\ Len(store) = 3

\* C4: what the store held before a call is a prefix of what it holds after
\* the call.
C4_StoreOnlyGrowsAtTheEnd ==
    calls > 0 =>
        /\ Len(last.existing_data) <= Len(store)
        /\ SubSeq(store, 1, Len(last.existing_data)) = last.existing_data

\* C4 witness: a call found a header and rows, and appended a row to them.
C4_Witness_AppendAfterRows ==
    /\ calls > 1 /\ Len(last.existing_data) >= 2
    /\ Len(store) > Len(last.existing_data)

\* ------------------------------------------------- normalize_row, as a step
InitNorm ==
    /\ item \in RawItems
    /\ normalized = None
    /\ npc = "call"
    /\ IdleSync
    /\ IdleRun
    /\ IdleDecode
    /\ IdleDate
    /\ IdleRace

NormalizeRow ==
    /\ npc = "call"
    /\ normalized' = normalize_row(item)
    /\ npc' = "done"
    /\ UNCHANGED <<item, syncVars, runVars, decVars, dateVars, raceVars>>

NextNorm == NormalizeRow

SpecNorm == InitNorm /\ [][NextNorm]_vars

\* ----------------------------------------------- claims on normalize_row
\* what the claims call the flat text of a raw row: the text line, or the
\* cells joined with a visible separator
FlatText(it) == IF it.has_text THEN it.raw_text ELSE Join(it.raw_cells, <<" ", "|", " ">>)

HeaderKeywords ==
    { <<"NUM", " ", "pe", "/", "pe">>, KwNomerMesta, KwVes, KwZakaz }

ContainsFolded(s, kw) ==
    \E i \in 1..(Len(s) - Len(kw) + 1) :
        \A k \in 1..Len(kw) : Lower(s[i + k - 1]) = kw[k]

MentionsHeader(it) == \E kw \in HeaderKeywords : ContainsFolded(FlatText(it), kw)

\* C8: a raw row whose flat text contains a column-header keyword, in any
\* letter case, is normalized to None, whether it came from a table or from
\* a text line.
C8_HeaderRowsAreDropped ==
    (npc = "done" /\ MentionsHeader(item)) => IsNone(normalized)

\* C8 witness: a table row of at least 3 cells with a header word in mixed
\* case has been normalized to None, and so has a text line of 4 tokens.
C8_Witness_TableHeader ==
    /\ npc = "done"
    /\ item.has_cells /\ Len(item.raw_cells) >= 3
    /\ \E i \in 1..Len(item.raw_cells) : item.raw_cells[i] = <<"ve", "IE", "es">>
    /\ \A i \in 1..Len(item.raw_cells) : item.raw_cells[i] # <<>>
    /\ IsNone(normalized)

\* C9: a table row of fewer than 3 cells is normalized to None whatever its
\* cells contain, and so is a text line of fewer than 4 tokens; a table row
\* is never decoded through the text-token strategy.
C9_ShortRowsAreDropped ==
    npc = "done" =>
        /\ (item.has_cells /\ Len(item.raw_cells) < 3) => IsNone(normalized)
        /\ (item.has_text /\ Len(SplitWS(Strip(item.raw_text))) < 4) => IsNone(normalized)

\* the fields the claims attribute to a row: cells and tokens as
\* normalize_row reads them (trimmed, the soft hyphen written as "-")
RECURSIVE ConcatNoWS(_)
ConcatNoWS(parts) ==
    IF parts = <<>> THEN <<>> ELSE RemoveWS(Head(parts)) \o ConcatNoWS(Tail(parts))

PartsOf(it) ==
    IF it.has_cells
    THEN [i \in 1..Len(it.raw_cells) |-> ReplaceSHY(Strip(it.raw_cells[i]))]
    ELSE SplitWS(Strip(ReplaceSHY(it.raw_text)))

\* C10: a non-null result carries the first three cells of a table row of at
\* least 3 cells, or the first three tokens of a text line of at least 4
\* tokens, as seq, place_number and weight; its order is the rest
\* concatenated without any whitespace; source_pdf and pdf_date are those of
\* the raw row.
C10_FieldsComeFromTheRow ==
    (npc = "done" /\ ~IsNone(normalized)) =>
        LET r == Val(normalized)
            parts == PartsOf(item)
        IN  /\ Len(parts) >= (IF item.has_cells THEN 3 ELSE 4)
            /\ r.seq = parts[1]
            /\ r.place_number = parts[2]
            /\ r.weight = parts[3]
            /\ r.order = ConcatNoWS(SubSeq(parts, 4, Len(parts)))
            /\ \A i \in 1..Len(r.order) : ~IsWS(r.order[i])
            /\ r.source_pdf = item.source_pdf
            /\ r.pdf_date = item.pdf_date

\* --------------------------------------------- the processing run, as a step
InitRun ==
    /\ uploaded_files \in Uploads
    /\ world \in [URLs -> Resources]
    /\ hashOrder \in Orderings(URLs)
    /\ processing = TRUE
    /\ results = None
    /\ session_df = None
    /\ returns = <<>>
    /\ fetched = <<>>
    /\ IdleSync
    /\ IdleNorm
    /\ IdleDecode
    /\ IdleDate
    /\ IdleRace

\* the script run with processing set, app.py lines 101-202
ProcessUploadedFiles ==
    /\ processing /\ uploaded_files # <<>>
    /\ \E done \in {FileLoop(uploaded_files, Loop(<<>>, <<>>, <<>>))} :
          /\ results' = Some(done.results)
          /\ returns' = done.returns
          /\ fetched' = [i \in 1..Len(uploaded_files) |-> Downloads(uploaded_files[i])]
          /\ session_df' = IF done.all_rows # <<>>
                   THEN Some(drop_duplicates(
                            [k \in 1..Len(done.all_rows) |-> WithUploadedDate(done.all_rows[k])],
                            <<>>))
                   ELSE None
    /\ processing' = FALSE
    /\ UNCHANGED <<uploaded_files, world, hashOrder, normVars, syncVars, decVars, dateVars, raceVars>>

NextRun == ProcessUploadedFiles

SpecRun == InitRun /\ [][NextRun]_vars

\* ------------------------------------------- claims on the processing run
\* the URLs decoded from a file, in the order process_single_image takes them
UrlsOf(f) ==
    IF IsNone(decode_qr_from_image(f)) THEN <<>> ELSE Val(decode_qr_from_image(f))

\* fetching or parsing the PDF of the URL fails
UrlFails(u) ==
    \/ world[u] = FetchError
    \/ ~world[u].opens
    \/ \E k \in 1..Len(world[u].pages) : world[u].pages[k].text_raises

\* the normalized rows of the PDF of the n-th URL of a file
RowsOfUrl(u, n, filename) ==
    NormalizedRows(Val(extract_table_rows_from_pdf(world[u], SourceName(filename, n))))

RECURSIVE RowsOfGoodUrls(_, _, _)
RowsOfGoodUrls(urls, n, filename) ==
    IF n > Len(urls) THEN <<>>
    ELSE (IF UrlFails(urls[n]) THEN <<>> ELSE RowsOfUrl(urls[n], n, filename))
         \o RowsOfGoodUrls(urls, n + 1, filename)

\* C5: a URL whose fetch or parse fails contributes no rows and the other
\* URLs of the image are still processed: process_single_image returns
\* success with exactly the rows of the URLs that did not fail, in URL order.
C5_FailedUrlIsSkippedAlone ==
    \A i \in 1..Len(returns) : \A urls \in {UrlsOf(uploaded_files[i])} :
        (~IsNone(returns[i]) /\ urls # <<>>) =>
            /\ Val(returns[i]).success
            /\ IsNone(Val(returns[i]).error)
            /\ Val(returns[i]).rows = RowsOfGoodUrls(urls, 1, uploaded_files[i].name)

\* C5 witness: an image with two URLs, the first of a PDF whose second page
\* cannot be read, the second of a readable PDF with rows; the rows returned
\* are those of the second URL.
C5_Witness_SecondUrlSurvives ==
    \E i \in 1..Len(returns) :
        /\ ~IsNone(returns[i])
        /\ Len(UrlsOf(uploaded_files[i])) = 2
        /\ world[UrlsOf(uploaded_files[i])[1]] = PdfSecondPageFails
        /\ world[UrlsOf(uploaded_files[i])[2]] = PdfTextOnly
        /\ Len(Val(returns[i]).rows) = 2
        /\ \A k \in 1..2 :
              Val(returns[i]).rows[k].source_pdf = SourceName(uploaded_files[i].name, 2)

\* C6: an image with one QR whose PDF has one page with a table of a header
\* row and one 5-column row, the row being also a line of the page text,
\* gives qr_count = 1 and rows_count = 1.
C6_OneRecordIsCountedOnce ==
    \A i \in 1..Len(returns) :
        (/\ ~IsNone(returns[i])
         /\ Len(UrlsOf(uploaded_files[i])) = 1
         /\ world[UrlsOf(uploaded_files[i])[1]] = PdfOneRow) =>
            /\ Val(returns[i]).qr_count = 1
            /\ Val(results)[i].qr_count = 1
            /\ Val(results)[i].rows_count = 1

\* the image cannot be read, or process_single_image reports a failure
ImageFails(f) == ~f.read_ok \/ IsNone(decode_qr_from_image(f))

\* C7: an image that fails gets an error result and nothing else changes:
\* every image of the run has its result, and the rows of every image that
\* did not fail are in the aggregated data.
C7_FailedImageIsSkippedAlone ==
    ~IsNone(results) =>
        /\ Len(Val(results)) = Len(uploaded_files)
        /\ \A i \in 1..Len(uploaded_files) :
              LET f == uploaded_files[i] IN
                  /\ Val(results)[i].file = f.name
                  /\ ImageFails(f) => Val(results)[i].status = "error"
                  /\ ~ImageFails(f) =>
                        \A urls \in {UrlsOf(f)} : \A good \in {RowsOfGoodUrls(urls, 1, f.name)} :
                            /\ Val(results)[i].status # "error"
                            /\ Val(results)[i].rows_count = Len(good)
                            /\ \A k \in 1..Len(good) :
                                  /\ ~IsNone(session_df)
                                  /\ \E m \in 1..Len(Val(session_df)) :
                                        Val(session_df)[m] = WithUploadedDate(good[k])

\* C7 witness: three images, the second failed, and the data holds rows of
\* the first and of the third.
C7_Witness_MiddleImageFailed ==
    /\ ~IsNone(results) /\ ~IsNone(session_df)
    /\ Len(uploaded_files) = 3
    /\ uploaded_files[2].read_ok /\ IsNone(decode_qr_from_image(uploaded_files[2]))
    /\ Val(results)[2].status = "error"
    /\ Val(results)[1].rows_count > 0 /\ Val(results)[3].rows_count > 0
    /\ \E m \in 1..Len(Val(session_df)) : Val(session_df)[m].source_pdf[1] = "a.png"
    /\ \E m \in 1..Len(Val(session_df)) : Val(session_df)[m].source_pdf[1] = "c.png"

\* ------------------------------------------ decode_qr_from_image, alone
\* what one transform can give
TransformOutcomes ==
    { Raises(TRUE), Raises(FALSE), Decodes(<<>>), Decodes(<<QrA>>), Decodes(<<QrAB>>),
      Decodes(<<QrNoUrl>>), Decodes(<<BarcodeB>>), Decodes(<<BarcodeB, QrA>>),
      Decodes(<<QrA, QrA>>) }

\* bytes that are no image, and the images of up to MaxTransforms transforms
Photos ==
    { Image("", TRUE, FALSE, <<>>) }
    \cup { Image("", TRUE, TRUE, b) : b \in SeqsUpTo(TransformOutcomes, MaxTransforms) }

InitDecode ==
    /\ photo \in Photos
    /\ decoded = None
    /\ dpc = "call"
    /\ uploaded_files = <<>>
    /\ world = [u \in URLs |-> FetchError]
    /\ hashOrder \in Orderings(URLs)
    /\ processing = FALSE
    /\ results = None
    /\ session_df = None
    /\ returns = <<>>
    /\ fetched = <<>>
    /\ IdleSync
    /\ IdleNorm
    /\ IdleDate
    /\ IdleRace

DecodeQr ==
    /\ dpc = "call"
    /\ decoded' = decode_qr_from_image(photo)
    /\ dpc' = "done"
    /\ UNCHANGED <<photo, normVars, syncVars, runVars, dateVars, raceVars>>

NextDecode == DecodeQr

SpecDecode == InitDecode /\ [][NextDecode]_vars

\* the payloads of the QR symbols that the transforms of an image decode
QrPayloads(img) ==
    { img.battery[i].symbols[j].data :
        <<i, j>> \in { ij \in (1..Len(img.battery)) \X (1..2) :
                         /\ ij[2] <= Len(img.battery[ij[1]].symbols)
                         /\ img.battery[ij[1]].symbols[ij[2]].type = "QRCODE" } }

\* the same image with its transforms tried in the order p
Reordered(img, p) == [img EXCEPT !.battery = [k \in 1..Len(img.battery) |-> img.battery[p[k]]]]

\* C11: when decode_qr_from_image returns, its result holds no URL twice and
\* its URLs are exactly those of the distinct QR payloads that some transform
\* decoded, whatever the number of transforms that found a payload and whatever
\* the order of the transforms; symbols that are no QR code add nothing.
C11_ResultIsTheUnionOverQrPayloads ==
    (dpc = "done" /\ ~IsNone(decoded)) =>
        /\ \A a, b \in 1..Len(Val(decoded)) : a # b => Val(decoded)[a] # Val(decoded)[b]
        /\ { Val(decoded)[k] : k \in 1..Len(Val(decoded)) }
              = UNION { UrlsIn(d) : d \in QrPayloads(photo) }
        /\ \A p \in Orderings(1..Len(photo.battery)) :
              decode_qr_from_image(Reordered(photo, p)) = decoded

\* one payload found by two transforms, beside a barcode that carries a URL
C11_Witness_PayloadFoundTwice ==
    /\ dpc = "done"
    /\ decoded = Some(<<UrlA>>)
    /\ \E i, j \in 1..Len(photo.battery) :
          /\ i # j
          /\ photo.battery[i].symbols = <<QrA>>
          /\ photo.battery[j].symbols = <<BarcodeB, QrA>>

\* ------------------------------------------ claims on an image without QR
\* no transform of the image decodes a QR symbol, or the bytes are no image
NothingToDecode(f) == ~f.parsable \/ QrPayloads(f) = {}

\* C12: for an input that is no image, or an image on which no transform
\* decodes a QR symbol, decode_qr_from_image returns the empty list without
\* raising, and process_single_image returns (true, 0, no rows, no error) and
\* fetches nothing.
C12_NothingDecodedIsNoError ==
    ~processing =>
        \A i \in 1..Len(uploaded_files) :
            (uploaded_files[i].read_ok /\ NothingToDecode(uploaded_files[i])) =>
                /\ decode_qr_from_image(uploaded_files[i]) = Some(<<>>)
                /\ returns[i] = Some(Returned(TRUE, 0, <<>>, None))
                /\ fetched[i] = <<>>

\* ------------------------------------------------ claims on a failed send
\* C13: when a call of the store fails inside update_google_sheet, the error
\* reaches the caller and no store URL is returned, and
\* uploaded_successfully is false after the handler.
C13_FailedSendIsNotMarkedSuccessful ==
    send.raised => (IsNone(send.url) /\ ~uploaded_successfully)

\* C13 witness: after a successful send and the refresh that follows it, a
\* send failed: the store has rows and the flag is false.
C13_Witness_SendFailedAfterASuccess ==
    /\ send.raised
    /\ calls > 0 /\ Len(store) > 1
    /\ ~uploaded_successfully

\* ------------------------------------------------ extract_pdf_date, alone
\* the dates of the pages
PageDates == {"01.02.2024 10:00:00", "03.04.2024 12:00:00"}

\* the pages of the model: the text cannot be read; there is no text; the
\* text has no date; the text has dates and none after the label; the text
\* has the label followed by a date, which is or is not its first date
DatePages ==
    { Page(Some(<<>>), TRUE, <<>>, "", ""),
      Page(Some(<<>>), FALSE, <<>>, "", ""),
      Page(Some(<<>>), FALSE, << <<"a">> >>, "", "") }
    \cup { Page(Some(<<>>), FALSE, << <<"a">> >>, "", d) : d \in PageDates }
    \cup { Page(Some(<<>>), FALSE, << <<"a">> >>, l, d) : l \in PageDates, d \in PageDates }

\* bytes that cannot be opened, and the documents of up to MaxPages pages
DatePdfs ==
    { PdfCorrupt }
    \cup { [opens |-> TRUE, pages |-> ps] : ps \in SeqsUpTo(DatePages, MaxPages) }

InitDate ==
    /\ doc \in DatePdfs
    /\ doc_date = ""
    /\ xpc = "call"
    /\ IdleNorm
    /\ IdleSync
    /\ IdleRun
    /\ IdleDecode
    /\ IdleRace

ExtractPdfDate ==
    /\ xpc = "call"
    /\ doc_date' = extract_pdf_date(doc)
    /\ xpc' = "done"
    /\ UNCHANGED <<doc, normVars, syncVars, runVars, decVars, raceVars>>

NextDate == ExtractPdfDate

SpecDate == InitDate /\ [][NextDate]_vars

\* the text of the page has the label followed by a date
HasLabelDate(page) == ~page.text_raises /\ page.text # <<>> /\ page.label_date # ""

\* the text of the page has a date
HasAnyDate(page) == ~page.text_raises /\ page.text # <<>> /\ page.any_date # ""

\* C14: when some page has a date after the label, extract_pdf_date returns
\* that date of the earliest such page; it returns a date without the label
\* only when no page has a date after the label, and the empty string only
\* when no page has any date.
C14_LabelDateOfAnyPageComesFirst ==
    xpc = "done" =>
        LET n == Len(doc.pages)
            labelled == { i \in 1..n : HasLabelDate(doc.pages[i]) }
            dated == { i \in 1..n : HasAnyDate(doc.pages[i]) }
        IN  /\ labelled # {} =>
                  \E i \in labelled :
                      /\ \A j \in labelled : i <= j
                      /\ doc_date = doc.pages[i].label_date
            /\ (labelled = {} /\ dated # {}) =>
                  \E i \in dated :
                      /\ \A j \in dated : i <= j
                      /\ doc_date = doc.pages[i].any_date
            /\ doc_date = "" => dated = {}

\* --------------------------------- update_google_sheet, two writers at once
Writers == {1, 2}

\* a writer before get_all_values, between it and the write, and after
Writing(pc, df, existing_data) == [pc |-> pc, df |-> df, existing_data |-> existing_data]

\* the store after one call on an empty store: the header and one row
StoreWithRows == ApplyCalls(<<>>, SheetCalls(<<SheetRow("1", "PL-78", "ORD552")>>, <<>>))

InitRace ==
    /\ store = StoreWithRows
    /\ \E d1, d2 \in DataFrames :
          writer = [w \in Writers |-> Writing("start", IF w = 1 THEN d1 ELSE d2, <<>>)]
    /\ overlapped = FALSE
    /\ calls = 0
    /\ last = NoCall
    /\ resent = FALSE
    /\ uploaded_successfully = FALSE
    /\ send = NoSend
    /\ IdleNorm
    /\ IdleRun
    /\ IdleDecode
    /\ IdleDate

\* writer w reads the store, line 61
ReadStore(w) ==
    /\ writer[w].pc = "start"
    /\ writer' = [writer EXCEPT ![w] = Writing("read", writer[w].df, store)]
    /\ overlapped' = (overlapped \/ \E v \in Writers \ {w} : writer[v].pc = "read")
    /\ UNCHANGED <<syncVars, normVars, runVars, decVars, dateVars>>

\* writer w scans what it read and writes, lines 63-89
WriteStore(w) ==
    /\ writer[w].pc = "read"
    /\ store' = ApplyCalls(store, SheetCalls(writer[w].df, writer[w].existing_data))
    /\ writer' = [writer EXCEPT ![w].pc = "done"]
    /\ UNCHANGED <<calls, last, resent, uploaded_successfully, send, overlapped,
                   normVars, runVars, decVars, dateVars>>

NextRace == \E w \in Writers : ReadStore(w) \/ WriteStore(w)

SpecRace == InitRace /\ [][NextRace]_vars

\* the (place_number, order) pair of an input row is in no row of the store
\* the writers started from
IsNewPair(r) == \A k \in 2..Len(StoreWithRows) : ~SamePair(StoreWithRows[k], AsStoreRow(r))

\* the rows of the store with the pair of the input row r
RowsWithPairOf(r) == { k \in 2..Len(store) : SamePair(store[k], AsStoreRow(r)) }

\* both writers carry a row with the pair of r, which is new
SharedNewPair(r) ==
    /\ IsNewPair(r)
    /\ \A w \in Writers : \E k \in 1..Len(writer[w].df) :
          SamePair(AsStoreRow(writer[w].df[k]), AsStoreRow(r))

\* C15: two calls that both carry a row with the same new pair and run one
\* after the other on a store with rows and without duplicates never leave
\* that pair twice in the store (calls that both read before either writes
\* can: see C15_Reached_PairTwiceByInterleaving).
C15_SerializedCallsNeverDoubleAPair ==
    (~overlapped /\ \A w \in Writers : writer[w].pc = "done") =>
        \A r \in SheetRows : SharedNewPair(r) => Cardinality(RowsWithPairOf(r)) <= 1

\* the interleaving of C15: both writers read before either wrote, each
\* carries one row, of the same new pair, and the store has it twice
C15_Reached_PairTwiceByInterleaving ==
    /\ overlapped
    /\ \A w \in Writers : writer[w].pc = "done" /\ Len(writer[w].df) = 1
    /\ \E r \in SheetRows : SharedNewPair(r) /\ Cardinality(RowsWithPairOf(r)) = 2

\* ------------------------------------------- claims on a repeated batch
\* C16: when update_google_sheet is called twice in succession with the same
\* rows, the second call makes no write: the store after it is the store
\* after the first call.
C16_SecondCallOfABatchAppendsNothing ==
    (calls >= 2 /\ resent) =>
        /\ last.calls = <<>>
        /\ store = last.existing_data

\* C16 witness: a batch of two rows was written to the empty store and sent
\* again, and the store holds the header and the two rows.
C16_Witness_BatchSentTwice ==
    /\ calls = 2 /\ resent
    /\ Len(last.df) = 2
    /\ last.existing_data = <<headers>> \o ValuesToList(last.df)
    /\ store = <<headers>> \o ValuesToList(last.df)

\* --------------------------------------- claims on what an image reports
\* the URLs in the payloads of the QR symbols of an image
DistinctUrls(f) == IF f.parsable THEN UNION { UrlsIn(d) : d \in QrPayloads(f) } ELSE {}

\* C17: for every image on which decoding returns, process_single_image
\* returns success = true and error = none, and qr_count is the number of
\* distinct URLs of the image, whatever the URLs give when fetched and however
\* many symbols carry them.
C17_DecodedImageReportsItsUrlCount ==
    ~processing =>
        \A i \in 1..Len(uploaded_files) :
            (uploaded_files[i].read_ok /\ ~IsNone(decode_qr_from_image(uploaded_files[i]))) =>
                /\ ~IsNone(returns[i])
                /\ Val(returns[i]).success
                /\ Val(returns[i]).error = None
                /\ Val(returns[i]).qr_count = Cardinality(DistinctUrls(uploaded_files[i]))

\* C17 witness: an image with two URLs, one of them carried by two symbols,
\* neither of which can be fetched, returned (true, 2, no rows, none).
C17_Witness_AllUrlsFailed ==
    /\ ~processing
    /\ \E i \in 1..Len(uploaded_files) :
          /\ Cardinality(DistinctUrls(uploaded_files[i])) = 2
          /\ \A u \in URLs : world[u] \in {FetchError, PdfCorrupt}
          /\ returns[i] = Some(Returned(TRUE, 2, <<>>, None))

====
